---- MODULE Spec2Model ----
(***************************************************************************)
(* Model of ssh_config: the line-format parser and serializer of           *)
(* parser.py (SSHConfigParser, detect_format, convert_format) and of       *)
(* core.py (SSHConfigConverter).                                           *)
(*                                                                         *)
(* Text is a TLA+ string, read character by character with SubSeq.         *)
(* A Python value that is "a str or a list of str" is the record           *)
(* [list |-> BOOLEAN, v |-> sequence of strings]: Str(s) is the str s,     *)
(* Lst(xs) the list xs.  A Python dict is the sequence of its <<key,       *)
(* value>> pairs in insertion order.  An Optional is a sequence of length  *)
(* 0 (None) or 1.  A whole document, as json and yaml load and dump it,    *)
(* is [type, items]: PyDict of its pairs, PyList of its elements, PyStr,   *)
(* PyNone.  The text json.dumps or yaml.dump writes is denoted by the      *)
(* document it writes, Dumped(format, data).                               *)
(***************************************************************************)
EXTENDS Integers, Sequences, FiniteSets, TLC

VARIABLES fn, arg, ret

vars == <<fn, arg, ret>>

(***************************************************************************)
(* Bounds of the explored inputs.                                          *)
(***************************************************************************)
MaxLines == 3
MaxEntries == 2
MaxDirectives == 2
MaxComments == 10

(***************************************************************************)
(* Python str methods.                                                     *)
(***************************************************************************)
Ch(s, i) == SubSeq(s, i, i)

IsSpace(c) == c \in {" ", "\t", "\n"}

CasePairs ==
  { <<"H", "h">>, <<"U", "u">>, <<"I", "i">>, <<"F", "f">>, <<"N", "n">>,
    <<"P", "p">>, <<"M", "m">>, <<"K", "k">> }

lower_ch(c) ==
  IF \E p \in CasePairs : p[1] = c
  THEN (CHOOSE p \in CasePairs : p[1] = c)[2]
  ELSE c

upper_ch(c) ==
  IF \E p \in CasePairs : p[2] = c
  THEN (CHOOSE p \in CasePairs : p[2] = c)[1]
  ELSE c

RECURSIVE lower(_)
lower(s) == IF s = "" THEN "" ELSE lower_ch(Head(s)) \o lower(Tail(s))

capitalize(s) == IF s = "" THEN "" ELSE upper_ch(Head(s)) \o lower(Tail(s))

startswith(s, p) == Len(s) >= Len(p) /\ SubSeq(s, 1, Len(p)) = p

RECURSIVE lstrip(_)
lstrip(s) == IF s # "" /\ IsSpace(Head(s)) THEN lstrip(Tail(s)) ELSE s

RECURSIVE rstrip(_)
rstrip(s) ==
  IF s # "" /\ IsSpace(Ch(s, Len(s)))
  THEN rstrip(SubSeq(s, 1, Len(s) - 1))
  ELSE s

strip(s) == rstrip(lstrip(s))

contains(s, c) == \E i \in 1..Len(s) : Ch(s, i) = c

\* index of the first character of s satisfying the test, Len(s) + 1 if none
FirstNewline(s) ==
  IF contains(s, "\n")
  THEN CHOOSE i \in 1..Len(s) :
         Ch(s, i) = "\n" /\ \A j \in 1..(i - 1) : Ch(s, j) # "\n"
  ELSE Len(s) + 1

FirstBlank(s) ==
  IF contains(s, " ")
  THEN CHOOSE i \in 1..Len(s) :
         Ch(s, i) = " " /\ \A j \in 1..(i - 1) : Ch(s, j) # " "
  ELSE Len(s) + 1

FirstSpace(s) ==
  IF \E i \in 1..Len(s) : IsSpace(Ch(s, i))
  THEN CHOOSE i \in 1..Len(s) :
         IsSpace(Ch(s, i)) /\ \A j \in 1..(i - 1) : ~IsSpace(Ch(s, j))
  ELSE Len(s) + 1

\* str.split('\n'): the pieces between newlines, a trailing empty piece kept
RECURSIVE split_nl(_)
split_nl(s) ==
  LET i == FirstNewline(s)
  IN  IF i > Len(s)
      THEN <<s>>
      ELSE <<SubSeq(s, 1, i - 1)>> \o split_nl(SubSeq(s, i + 1, Len(s)))

\* str.splitlines(): as split('\n') without the empty piece after a final newline
splitlines(s) ==
  LET pieces == split_nl(s)
  IN  IF pieces[Len(pieces)] = ""
      THEN SubSeq(pieces, 1, Len(pieces) - 1)
      ELSE pieces

\* str.split(): the maximal runs of non-whitespace
RECURSIVE split_ws(_)
split_ws(s) ==
  LET t == lstrip(s)
      i == FirstSpace(t)
  IN  IF t = ""
      THEN <<>>
      ELSE <<SubSeq(t, 1, i - 1)>> \o split_ws(SubSeq(t, i, Len(t)))

\* str.split(maxsplit=1): the first run of non-whitespace and the rest with
\* its leading whitespace removed
split_maxsplit1(s) ==
  LET t == lstrip(s)
      i == FirstSpace(t)
      rest == lstrip(SubSeq(t, i, Len(t)))
  IN  IF t = "" THEN <<>>
      ELSE IF rest = "" THEN <<SubSeq(t, 1, i - 1)>>
      ELSE <<SubSeq(t, 1, i - 1), rest>>

\* str.split(" ", 1) of a string that contains a blank
split_blank1(s) ==
  LET i == FirstBlank(s)
  IN  <<SubSeq(s, 1, i - 1), SubSeq(s, i + 1, Len(s))>>

RECURSIVE join(_, _)
join(sep, xs) ==
  IF xs = <<>> THEN ""
  ELSE IF Len(xs) = 1 THEN xs[1]
  ELSE xs[1] \o sep \o join(sep, Tail(xs))

(***************************************************************************)
(* Python values and dicts.                                                *)
(***************************************************************************)
Str(s) == [list |-> FALSE, v |-> <<s>>]

Lst(xs) == [list |-> TRUE, v |-> xs]

dict_has(d, k) == \E i \in 1..Len(d) : d[i][1] = k

dict_get(d, k) == d[CHOOSE i \in 1..Len(d) : d[i][1] = k][2]

\* d[k] = val: an existing key keeps its place, a new key goes last
dict_set(d, k, val) ==
  IF dict_has(d, k)
  THEN [i \in 1..Len(d) |-> IF d[i][1] = k THEN <<k, val>> ELSE d[i]]
  ELSE Append(d, <<k, val>>)

\* str(val) as an f-string renders it: a str as itself, a list as its repr
repr_list(xs) ==
  "[" \o join(", ", [i \in 1..Len(xs) |-> "'" \o xs[i] \o "'"]) \o "]"

format_value(val) == IF val.list THEN repr_list(val.v) ELSE val.v[1]

PyDict(pairs) == [type |-> "dict", items |-> pairs]

PyList(xs) == [type |-> "list", items |-> xs]

PyStr(s) == [type |-> "str", items |-> <<s>>]

PyNone == [type |-> "none", items |-> <<>>]

Dumped(format, data) == [format |-> format, data |-> data]

Return(val) == [kind |-> "ok", val |-> val]

Raise(exc, msg) == [kind |-> "raise", exc |-> exc, msg |-> msg]

(***************************************************************************)
(* parser.py: SSHConfigParser.                                             *)
(***************************************************************************)
\* the Host value of a Host line: the list of its patterns, or the one pattern
host_value(host_names) ==
  IF Len(host_names) > 1 THEN Lst(host_names) ELSE Str(host_names[1])

\* current_host[key] receives one more value
accumulate(current_host, key, value) ==
  IF dict_has(current_host, key)
  THEN IF dict_get(current_host, key).list
       THEN dict_set(current_host, key,
                     Lst(Append(dict_get(current_host, key).v, value)))
       ELSE dict_set(current_host, key,
                     Lst(<<dict_get(current_host, key).v[1], value>>))
  ELSE dict_set(current_host, key, Str(value))

\* one iteration of the loop of parse_ssh_config over st = [hosts, current_host]
parse_line(st, raw) ==
  LET line == strip(raw)
  IN  IF line = "" \/ startswith(line, "#")
      THEN st
      ELSE IF startswith(lower(line), "host ")
      THEN [hosts |-> IF st.current_host # <<>> /\ st.current_host[1] # <<>>
                      THEN Append(st.hosts, st.current_host[1])
                      ELSE st.hosts,
            current_host |->
              <<  <<  <<"Host",
                        host_value(split_ws(strip(SubSeq(line, 6, Len(line)))))>>
                  >>  >>]
      ELSE IF st.current_host # <<>>
      THEN IF contains(line, " ")
           THEN LET kv == split_blank1(line)
                    key == strip(kv[1])
                    value == strip(kv[2])
                IN  [st EXCEPT !.current_host =
                       <<accumulate(st.current_host[1], key, value)>>]
           ELSE st
      ELSE st

RECURSIVE parse_lines(_, _)
parse_lines(st, lines) ==
  IF lines = <<>> THEN st
  ELSE parse_lines(parse_line(st, Head(lines)), Tail(lines))

parse_ssh_config(content) ==
  LET st == parse_lines([hosts |-> <<>>, current_host |-> <<>>],
                        splitlines(content))
  IN  IF st.current_host # <<>> /\ st.current_host[1] # <<>>
      THEN Append(st.hosts, st.current_host[1])
      ELSE st.hosts

\* the lines one value of a key is written as
value_lines(key, val) ==
  IF val.list
  THEN [i \in 1..Len(val.v) |-> "    " \o key \o " " \o val.v[i]]
  ELSE <<"    " \o key \o " " \o val.v[1]>>

RECURSIVE directive_lines(_)
directive_lines(host) ==
  IF host = <<>> THEN <<>>
  ELSE (IF Head(host)[1] = "Host"
        THEN <<>>
        ELSE value_lines(Head(host)[1], Head(host)[2]))
       \o directive_lines(Tail(host))

RECURSIVE format_hosts(_)
format_hosts(data) ==
  IF data = <<>> THEN <<>>
  ELSE LET host == Head(data)
           host_line ==
             IF dict_get(host, "Host").list
             THEN "Host " \o join(" ", dict_get(host, "Host").v)
             ELSE "Host " \o dict_get(host, "Host").v[1]
       IN  <<host_line>> \o directive_lines(host) \o <<"">>
           \o format_hosts(Tail(data))

format_ssh_config(data) == rstrip(join("\n", format_hosts(data))) \o "\n"

(***************************************************************************)
(* core.py: SSHConfigConverter.  ssh_to_dict keeps its dicts in a heap     *)
(* (objs, addressed by position) because current_host and the elements of  *)
(* hosts are references: a dict changed through one is changed for all.    *)
(***************************************************************************)
multi_value_keys == {"identityfile", "localforward", "remoteforward"}

\* the directive branch of the loop: current_host (a reference) is not None
store_directive(st, key, value) ==
  LET cur == st.objs[st.current_host[1]]
      capitalized_key == capitalize(key)
      updated ==
        IF key \in multi_value_keys
        THEN LET had == IF dict_has(cur, capitalized_key)
                        THEN cur
                        ELSE dict_set(cur, capitalized_key, Lst(<<>>))
             IN  dict_set(had, capitalized_key,
                          Lst(Append(dict_get(had, capitalized_key).v, value)))
        ELSE dict_set(cur, capitalized_key, Str(value))
  IN  [st EXCEPT !.objs[st.current_host[1]] = updated]

\* the global-configuration branch: current_host is None
open_global(st) ==
  LET s1 == IF st.hosts = <<>>
            THEN [st EXCEPT !.objs = Append(st.objs, <<  <<"Host", Str("*")>>  >>),
                            !.hosts = <<Len(st.objs) + 1>>]
            ELSE st
      s2 == IF dict_get(s1.objs[s1.hosts[1]], "Host") = Str("*")
            THEN [s1 EXCEPT !.current_host = <<s1.hosts[1]>>]
            ELSE [s1 EXCEPT !.objs = Append(s1.objs, <<  <<"Host", Str("*")>>  >>),
                            !.current_host = <<Len(s1.objs) + 1>>]
  IN  IF dict_get(s2.objs[s2.current_host[1]], "Host") # Str("*")
      THEN [s2 EXCEPT !.objs = Append(s2.objs, <<  <<"Host", Str("*")>>  >>),
                      !.hosts = <<Len(s2.objs) + 1>> \o s2.hosts,
                      !.current_host = <<Len(s2.objs) + 1>>]
      ELSE s2

\* one iteration of the loop of ssh_to_dict over st = [objs, hosts, current_host]
scan_line(st, raw) ==
  LET line == strip(raw)
      parts == split_maxsplit1(line)
  IN  IF line = "" \/ startswith(line, "#")
      THEN st
      ELSE IF Len(parts) < 2
      THEN st
      ELSE LET key == lower(parts[1])
               value == parts[2]
           IN  IF key = "host"
               THEN [objs |-> Append(st.objs, <<  <<"Host", Str(value)>>  >>),
                     hosts |-> IF st.current_host # <<>>
                               THEN Append(st.hosts, st.current_host[1])
                               ELSE st.hosts,
                     current_host |-> <<Len(st.objs) + 1>>]
               ELSE store_directive(
                      IF st.current_host = <<>> THEN open_global(st) ELSE st,
                      key, value)

RECURSIVE scan_lines(_, _)
scan_lines(st, lines) ==
  IF lines = <<>> THEN st
  ELSE scan_lines(scan_line(st, Head(lines)), Tail(lines))

\* the loop and the final append: the heap and the references in hosts
ssh_to_dict_refs(content) ==
  LET st == scan_lines([objs |-> <<>>, hosts |-> <<>>, current_host |-> <<>>],
                       split_nl(content))
  IN  IF st.current_host # <<>>
      THEN [st EXCEPT !.hosts = Append(st.hosts, st.current_host[1])]
      ELSE st

\* the returned {"hosts": hosts}, each reference replaced by its dict
ssh_to_dict(content) ==
  LET st == ssh_to_dict_refs(content)
  IN  PyDict(<<  <<"hosts", [i \in 1..Len(st.hosts) |-> st.objs[st.hosts[i]]]>>  >>)

RECURSIVE dict_to_ssh_lines(_)
dict_to_ssh_lines(hosts) ==
  IF hosts = <<>> THEN <<>>
  ELSE LET host == Head(hosts)
       IN  (IF ~dict_has(host, "Host")
            THEN <<>>
            ELSE <<"Host " \o format_value(dict_get(host, "Host"))>>
                 \o directive_lines(host) \o <<"">>)
           \o dict_to_ssh_lines(Tail(hosts))

dict_to_ssh(data) ==
  IF data.type # "dict" \/ ~dict_has(data.items, "hosts")
  THEN Raise("ValueError", "Invalid data format for SSH conversion")
  ELSE Return(rstrip(join("\n", dict_to_ssh_lines(dict_get(data.items, "hosts")))))

(***************************************************************************)
(* json.loads and yaml.safe_load, the two library parsers the package      *)
(* calls.  They are modelled on the documents of LibraryDocs, each with    *)
(* the outcome the libraries give it, and on line-format text without      *)
(* YAML syntax, which YAML reads as one plain scalar and JSON rejects.     *)
(* Leading comment lines are no part of a YAML document and make a JSON    *)
(* text invalid.                                                           *)
(***************************************************************************)
OneHost == <<  <<  <<"Host", Str("a")>>  >>  >>

LibraryDocs ==
  { [text |-> "{\"hosts\": [{\"Host\": \"a\"}]}", json |-> TRUE, yaml |-> TRUE,
     data |-> PyDict(<<  <<"hosts", OneHost>>  >>)],
    [text |-> "[{\"Host\": \"a\"}]", json |-> TRUE, yaml |-> TRUE,
     data |-> PyList(OneHost)],
    [text |-> "\"a\"", json |-> TRUE, yaml |-> TRUE, data |-> PyStr("a")],
    [text |-> "hosts:\n- Host: a", json |-> FALSE, yaml |-> TRUE,
     data |-> PyDict(<<  <<"hosts", OneHost>>  >>)],
    [text |-> "- Host: a", json |-> FALSE, yaml |-> TRUE,
     data |-> PyList(OneHost)],
    [text |-> "Host: a", json |-> FALSE, yaml |-> TRUE,
     data |-> PyDict(<<  <<"Host", Str("a")>>  >>)],
    [text |-> "hosts: [", json |-> FALSE, yaml |-> FALSE, data |-> PyNone] }

RECURSIVE skip_comments(_)
skip_comments(s) ==
  LET t == lstrip(s)
  IN  IF startswith(t, "#")
      THEN skip_comments(SubSeq(t, FirstNewline(t) + 1, Len(t)))
      ELSE t

LibraryDoc(text) == CHOOSE d \in LibraryDocs : d.text = text

json_loads(content) ==
  LET body == strip(content)
  IN  IF \E d \in LibraryDocs : d.text = body /\ d.json
      THEN Return(LibraryDoc(body).data)
      ELSE Raise("JSONDecodeError", "")

yaml_safe_load(content) ==
  LET body == rstrip(skip_comments(content))
  IN  IF body = "" THEN Return(PyNone)
      ELSE IF \E d \in LibraryDocs : d.text = body
      THEN IF LibraryDoc(body).yaml
           THEN Return(LibraryDoc(body).data)
           ELSE Raise("YAMLError", "")
      ELSE Return(PyStr(body))

(***************************************************************************)
(* parser.py: detect_format, _looks_like_ssh_config, convert_format.       *)
(***************************************************************************)
ScanLimit == 10

looks_like_ssh_line(raw) ==
  LET line == strip(raw)
  IN  /\ line # ""
      /\ ~startswith(line, "#")
      /\ \/ startswith(lower(line), "host ")
         \/ startswith(lower(line), "match ")
         \/ /\ contains(line, " ")
            /\ ~startswith(line, "{")
            /\ ~startswith(line, "[")
            /\ ~startswith(line, "-")

looks_like_ssh_config(content) ==
  LET lines == splitlines(content)
      first == SubSeq(lines, 1, IF Len(lines) < ScanLimit THEN Len(lines) ELSE ScanLimit)
  IN  \E i \in 1..Len(first) : looks_like_ssh_line(first[i])

detect_format(content) ==
  LET stripped == strip(content)
  IN  IF stripped = "" THEN Return("ssh")
      ELSE IF json_loads(stripped).kind = "ok" THEN Return("json")
      ELSE IF yaml_safe_load(stripped).kind = "ok"
      THEN IF looks_like_ssh_config(stripped) THEN Return("ssh") ELSE Return("yaml")
      ELSE Return("ssh")

\* format_ssh_config as convert_format calls it, on whatever was loaded: it
\* iterates data and calls .get on each element
format_loaded(data) ==
  IF data.type = "list" THEN Return(format_ssh_config(data.items))
  ELSE IF data.type = "none" THEN Raise("TypeError", "object is not iterable")
  ELSE IF data.items = <<>> THEN Return("\n")
  ELSE Raise("AttributeError", "'str' object has no attribute 'get'")

\* the second half of convert_format: data to the target format
convert_to_target(data, target_format) ==
  IF target_format = "ssh" THEN format_loaded(data)
  ELSE IF target_format = "yaml" THEN Return(Dumped("yaml", data))
  ELSE IF target_format = "json" THEN Return(Dumped("json", data))
  ELSE Raise("ValueError", "Unsupported target format")

\* convert_format with the content loaded before the two formats are compared
convert_format_load_first(content, target_format, source_format) ==
  LET source == IF source_format = <<>>
                THEN detect_format(content).val
                ELSE source_format[1]
      loaded == IF source = "ssh" THEN Return(PyList(parse_ssh_config(content)))
                ELSE IF source = "yaml" THEN yaml_safe_load(content)
                ELSE IF source = "json" THEN json_loads(content)
                ELSE Raise("ValueError", "Unsupported source format")
  IN  IF loaded.kind = "raise" THEN loaded
      ELSE IF source = target_format THEN Return(content)
      ELSE convert_to_target(loaded.val, target_format)

\* source_format is an Optional: <<>> is None
convert_format(content, target_format, source_format) ==
  LET source == IF source_format = <<>>
                THEN detect_format(content).val
                ELSE source_format[1]
      loaded == IF source = "ssh" THEN Return(PyList(parse_ssh_config(content)))
                ELSE IF source = "yaml" THEN yaml_safe_load(content)
                ELSE IF source = "json" THEN json_loads(content)
                ELSE Raise("ValueError", "Unsupported source format")
  IN  IF source = target_format THEN Return(content)
      ELSE IF loaded.kind = "raise" THEN loaded
      ELSE convert_to_target(loaded.val, target_format)

(***************************************************************************)
(* core.py: SSHConfigConverter.detect_format and convert.                  *)
(***************************************************************************)
core_detect_format(content) ==
  LET stripped == strip(content)
      parsed == yaml_safe_load(stripped)
  IN  IF stripped = "" THEN Raise("ValueError", "Empty content")
      ELSE IF json_loads(stripped).kind = "ok" THEN Return("json")
      ELSE IF parsed.kind = "ok" /\ parsed.val.type \in {"dict", "list"}
      THEN Return("yaml")
      ELSE Return("ssh")

core_convert_to_target(data, target_format) ==
  IF target_format = "ssh" THEN dict_to_ssh(data)
  ELSE IF target_format = "yaml" THEN Return(Dumped("yaml", data))
  ELSE IF target_format = "json" THEN Return(Dumped("json", data))
  ELSE Raise("ValueError", "Unsupported target format")

convert(input_content, target_format) ==
  LET detected == core_detect_format(input_content)
      source_format == detected.val
      loaded == IF source_format = "ssh" THEN Return(ssh_to_dict(input_content))
                ELSE IF source_format = "yaml" THEN yaml_safe_load(input_content)
                ELSE IF source_format = "json" THEN json_loads(input_content)
                ELSE Raise("ValueError", "Unsupported source format")
  IN  IF detected.kind = "raise" THEN detected
      ELSE IF source_format = target_format THEN Return(input_content)
      ELSE IF loaded.kind = "raise" THEN loaded
      ELSE core_convert_to_target(loaded.val, target_format)

(***************************************************************************)
(* The explored inputs: line-format texts of at most MaxLines lines, the    *)
(* library documents with and without surrounding whitespace and behind    *)
(* at most MaxComments comment lines, and documents of at most MaxEntries  *)
(* entries and at most MaxDirectives directives in all.                    *)
(***************************************************************************)
SeqsUpTo(S, n) == UNION {[1..k -> S] : k \in 0..n}

LinePool ==
  { "Host a", "Host a b", "host b", "    User x", "    User y",
    "    IdentityFile k", "    identityfile j", "    HostName h",
    "# c", "", "Port" }

RECURSIVE unlines(_)
unlines(ls) == IF ls = <<>> THEN "" ELSE Head(ls) \o "\n" \o unlines(Tail(ls))

LineTexts == {unlines(ls) : ls \in SeqsUpTo(LinePool, MaxLines)}

RECURSIVE comment_lines(_)
comment_lines(n) == IF n = 0 THEN "" ELSE "# c\n" \o comment_lines(n - 1)

LibraryTexts ==
  {pre \o d.text \o post :
     pre \in {"", comment_lines(1), comment_lines(MaxComments)},
     d \in LibraryDocs, post \in {"", "\n", " \n"}}
  \cup {" \n", "\t"}

Texts == LineTexts \cup LibraryTexts

\* the texts json_loads and yaml_safe_load are modelled on: no comment line
\* after the first line of the document
InLibraryModel(content) ==
  LET lines == split_nl(skip_comments(content))
  IN  \A i \in 1..Len(lines) : ~startswith(strip(lines[i]), "#")

Formats == {"ssh", "yaml", "json", "xml"}

KnownFormats == {"ssh", "yaml", "json"}

HostPool == {Str("a"), Lst(<<"a", "b">>)}

KVPool ==
  { <<"User", Str("x")>>, <<"Port", Str("22")>>, <<"User", Lst(<<"x", "y">>)>>,
    <<"IdentityFile", Lst(<<"k">>)>>, <<"IdentityFile", Lst(<<"k", "j">>)>> }

DistinctKeys(kvs) ==
  \A i, j \in 1..Len(kvs) : i # j => kvs[i][1] # kvs[j][1]

Entries ==
  { <<  <<"Host", h>>  >> \o kvs :
      h \in HostPool,
      kvs \in {x \in SeqsUpTo(KVPool, MaxDirectives) : DistinctKeys(x)} }

RECURSIVE CountDirectives(_)
CountDirectives(d) ==
  IF d = <<>> THEN 0 ELSE Len(Head(d)) - 1 + CountDirectives(Tail(d))

Docs == {d \in SeqsUpTo(Entries, MaxEntries) : CountDirectives(d) <= MaxDirectives}

Inputs ==
  [type : {"text"}, content : Texts] \cup [type : {"data"}, data : Docs]

NoReturn == [kind |-> "none"]

(***************************************************************************)
(* The state: one call of one function of the package, fn, on the input    *)
(* arg, and what it returned or raised, ret.                                *)
(***************************************************************************)
Init ==
  /\ fn = "none"
  /\ arg \in Inputs
  /\ ret = NoReturn

ParseSshConfig ==
  /\ fn = "none"
  /\ arg.type = "text"
  /\ fn' = "parse_ssh_config"
  /\ ret' = Return(parse_ssh_config(arg.content))
  /\ UNCHANGED arg

FormatSshConfig ==
  /\ fn = "none"
  /\ arg.type = "data"
  /\ fn' = "format_ssh_config"
  /\ ret' = Return(format_ssh_config(arg.data))
  /\ UNCHANGED arg

SshToDict ==
  /\ fn = "none"
  /\ arg.type = "text"
  /\ fn' = "ssh_to_dict"
  /\ ret' = Return(ssh_to_dict(arg.content))
  /\ UNCHANGED arg

DictToSsh ==
  /\ fn = "none"
  /\ arg.type = "data"
  /\ fn' = "dict_to_ssh"
  /\ ret' = dict_to_ssh(PyDict(<<  <<"hosts", arg.data>>  >>))
  /\ UNCHANGED arg

DetectFormat ==
  /\ fn = "none"
  /\ arg.type = "text"
  /\ InLibraryModel(arg.content)
  /\ fn' = "detect_format"
  /\ ret' = detect_format(arg.content)
  /\ UNCHANGED arg

CoreDetectFormat ==
  /\ fn = "none"
  /\ arg.type = "text"
  /\ InLibraryModel(arg.content)
  /\ fn' = "core_detect_format"
  /\ ret' = core_detect_format(arg.content)
  /\ UNCHANGED arg

ConvertFormat ==
  /\ fn = "none"
  /\ arg.type = "text"
  /\ InLibraryModel(arg.content)
  /\ \E target_format \in Formats :
       \E source_format \in {<<>>} \cup {<<f>> : f \in Formats} :
         /\ arg' = [type |-> "call", content |-> arg.content,
                    target_format |-> target_format,
                    source_format |-> source_format]
         /\ ret' = convert_format(arg.content, target_format, source_format)
  /\ fn' = "convert_format"

Convert ==
  /\ fn = "none"
  /\ arg.type = "text"
  /\ InLibraryModel(arg.content)
  /\ \E target_format \in Formats :
       /\ arg' = [type |-> "call", content |-> arg.content,
                  target_format |-> target_format,
                  source_format |-> <<>>]
       /\ ret' = convert(arg.content, target_format)
  /\ fn' = "convert"

Next ==
  \/ ParseSshConfig
  \/ FormatSshConfig
  \/ SshToDict
  \/ DictToSsh
  \/ DetectFormat
  \/ CoreDetectFormat
  \/ ConvertFormat
  \/ Convert

Spec == Init /\ [][Next]_vars

(***************************************************************************)
(* What the specification says of a line-format text, read off the text    *)
(* itself: its meaningful lines as <<directive, rest>> pairs, its Host      *)
(* lines, the directives before the first Host line and those of each      *)
(* block.                                                                  *)
(***************************************************************************)
Meaningful(raw) ==
  /\ strip(raw) # ""
  /\ ~startswith(strip(raw), "#")
  /\ Len(split_maxsplit1(strip(raw))) = 2

SourcePairs(content) ==
  LET kept == SelectSeq(split_nl(content), Meaningful)
  IN  [i \in 1..Len(kept) |-> split_maxsplit1(strip(kept[i]))]

IsHostPair(p) == lower(p[1]) = "host"

HostPositions(ps) ==
  SelectSeq([i \in 1..Len(ps) |-> i], LAMBDA i : IsHostPair(ps[i]))

LeadingDirectives(ps) ==
  IF HostPositions(ps) = <<>> THEN ps
  ELSE SubSeq(ps, 1, HostPositions(ps)[1] - 1)

BlockDirectives(ps, j) ==
  LET hp == HostPositions(ps)
  IN  SubSeq(ps, hp[j] + 1, IF j < Len(hp) THEN hp[j + 1] - 1 ELSE Len(ps))

\* the values, in file order, of the directives of dirs named name in any casing
ValuesOf(dirs, name) ==
  LET same == SelectSeq(dirs, LAMBDA p : lower(p[1]) = lower(name))
  IN  [i \in 1..Len(same) |-> same[i][2]]

\* the spellings of name among the directives of dirs
Spellings(dirs, name) ==
  {dirs[i][1] : i \in {k \in 1..Len(dirs) : lower(dirs[k][1]) = lower(name)}}

FirstSpelling(dirs, name) ==
  dirs[CHOOSE i \in 1..Len(dirs) :
         /\ lower(dirs[i][1]) = lower(name)
         /\ \A k \in 1..(i - 1) : lower(dirs[k][1]) # lower(name)][1]

KeysLike(entry, name) ==
  {entry[i][1] : i \in {k \in 1..Len(entry) : lower(entry[k][1]) = lower(name)}}

Range(f) == {f[i] : i \in DOMAIN f}

Parsed == fn \in {"parse_ssh_config", "ssh_to_dict"}

\* the list of host entries a parse returned
ParsedHosts ==
  IF fn = "ssh_to_dict" THEN dict_get(ret.val.items, "hosts") ELSE ret.val

Pairs == SourcePairs(arg.content)

(***************************************************************************)
(* What the specification says of a document.                              *)
(***************************************************************************)
NonEmptyValue(val) ==
  /\ val.v # <<>>
  /\ \A i \in 1..Len(val.v) : val.v[i] # ""

\* the documents of the data model: Host is one pattern as a string or
\* several as a sequence, a multi-valued key holds a sequence even for one
\* value, any other key a string or a sequence of several values
WellFormed(d) ==
  \A e \in 1..Len(d) :
    /\ dict_has(d[e], "Host")
    /\ \A i \in 1..Len(d[e]) :
         /\ NonEmptyValue(d[e][i][2])
         /\ IF lower(d[e][i][1]) \in multi_value_keys
            THEN d[e][i][2].list
            ELSE d[e][i][2].list => Len(d[e][i][2].v) >= 2

\* the text C3 gives: per entry its Host line and one line per value, a blank
\* line between blocks, one newline at the end
RECURSIVE ExpectedDirectives(_)
ExpectedDirectives(entry) ==
  IF entry = <<>> THEN ""
  ELSE (IF Head(entry)[1] = "Host" THEN ""
        ELSE unlines([i \in 1..Len(Head(entry)[2].v) |->
                        "    " \o Head(entry)[1] \o " " \o Head(entry)[2].v[i]]))
       \o ExpectedDirectives(Tail(entry))

ExpectedBlock(entry) ==
  "Host " \o join(" ", dict_get(entry, "Host").v) \o "\n"
  \o ExpectedDirectives(entry)

ExpectedText(d) == join("\n", [e \in 1..Len(d) |-> ExpectedBlock(d[e])])

(***************************************************************************)
(* The claims.                                                             *)
(***************************************************************************)

\* C1: round-trip identity of SSHConfigParser: for every document whose
\* entries have a non-empty Host and whose multi-valued keys (identityfile,
\* localforward, remoteforward) hold a sequence even for one value,
\* parse_ssh_config(format_ssh_config(d)) is d: same entries, same key
\* order, same scalar-or-sequence shape of every value.
C1_RoundTripIdentity ==
  (fn = "format_ssh_config" /\ WellFormed(arg.data))
    => parse_ssh_config(ret.val) = arg.data

\* C2: line-format text converted to json, by convert(text, "json") and by
\* convert_format(text, "json"), is a top-level mapping with the one key
\* hosts, bound to an array of one element per host block in source order,
\* each carrying Host and every directive name as written in the source
\* and every value as a string (stated for texts that begin with their
\* first Host line).
C2_JsonShape ==
  (fn \in {"convert", "convert_format"}
     /\ arg.target_format = "json" /\ arg.source_format = <<>>
     /\ arg.content \in LineTexts
     /\ HostPositions(Pairs) # <<>> /\ LeadingDirectives(Pairs) = <<>>)
    => /\ ret.kind = "ok"
       /\ ret.val.format = "json"
       /\ ret.val.data.type = "dict"
       /\ Len(ret.val.data.items) = 1
       /\ dict_has(ret.val.data.items, "hosts")
       /\ LET hosts == dict_get(ret.val.data.items, "hosts")
          IN  /\ Len(hosts) = Len(HostPositions(Pairs))
              /\ \A j \in 1..Len(hosts) :
                   /\ dict_has(hosts[j], "Host")
                   /\ \A i \in 1..Len(BlockDirectives(Pairs, j)) :
                        dict_has(hosts[j], BlockDirectives(Pairs, j)[i][1])

\* C3: format_ssh_config and dict_to_ssh write every well-formed, non-empty
\* document as exactly: per entry "Host <patterns joined by blanks>", then
\* per value one line of four blanks, key, blank, value; a blank line
\* between blocks, no trailing blank line, exactly one final newline.
C3_SerializedText ==
  (fn \in {"format_ssh_config", "dict_to_ssh"}
     /\ WellFormed(arg.data) /\ arg.data # <<>>)
    => (ret.kind = "ok" /\ ret.val = ExpectedText(arg.data))

\* C4: wildcard-block synthesis: when directives precede the first Host
\* line, the first parsed entry has Host "*" and holds exactly those
\* directives with their values, for parse_ssh_config and for ssh_to_dict
\* (stated for leading directives of pairwise different names).
C4_WildcardBlock ==
  LET lead == LeadingDirectives(Pairs)
  IN  (Parsed /\ lead # <<>>
         /\ \A i, j \in 1..Len(lead) : i # j => lower(lead[i][1]) # lower(lead[j][1]))
        => /\ ParsedHosts # <<>>
           /\ dict_get(ParsedHosts[1], "Host") = Str("*")
           /\ Len(ParsedHosts[1]) = Len(lead) + 1
           /\ \A i \in 1..Len(lead) :
                \E k \in KeysLike(ParsedHosts[1], lead[i][1]) :
                  lead[i][2] \in Range(dict_get(ParsedHosts[1], k).v)

\* C5: a Host line of n >= 2 patterns parses to one entry whose Host is the
\* sequence of the n patterns, a Host line of one pattern to an entry whose
\* Host is that string, for parse_ssh_config and for ssh_to_dict (stated
\* for texts that begin with their first Host line).
C5_MultiPatternHost ==
  (Parsed /\ LeadingDirectives(Pairs) = <<>>)
    => /\ Len(ParsedHosts) = Len(HostPositions(Pairs))
       /\ \A j \in 1..Len(HostPositions(Pairs)) :
            LET patterns == split_ws(Pairs[HostPositions(Pairs)[j]][2])
            IN  dict_get(ParsedHosts[j], "Host") =
                  IF Len(patterns) >= 2 THEN Lst(patterns) ELSE Str(patterns[1])

\* C6: k >= 2 occurrences of a directive in one host block are stored under
\* one key as the sequence of the k values in file order, for
\* parse_ssh_config and for ssh_to_dict (stated for texts that begin with
\* their first Host line and names written in one spelling).
C6_MultiValueAccumulation ==
  (Parsed /\ LeadingDirectives(Pairs) = <<>>)
    => \A j \in 1..Len(HostPositions(Pairs)) :
         LET dirs == BlockDirectives(Pairs, j)
         IN  \A i \in 1..Len(dirs) :
               (Len(ValuesOf(dirs, dirs[i][1])) >= 2
                  /\ Cardinality(Spellings(dirs, dirs[i][1])) = 1)
                 => /\ Cardinality(KeysLike(ParsedHosts[j], dirs[i][1])) = 1
                    /\ \A k \in KeysLike(ParsedHosts[j], dirs[i][1]) :
                         dict_get(ParsedHosts[j], k) = Lst(ValuesOf(dirs, dirs[i][1]))

\* C7: within one host block directive names are matched without regard to
\* case, and the stored key is spelled as in its first occurrence in the
\* block, for parse_ssh_config and for ssh_to_dict (stated for texts that
\* begin with their first Host line).
C7_DirectiveCasing ==
  (Parsed /\ LeadingDirectives(Pairs) = <<>>)
    => \A j \in 1..Len(HostPositions(Pairs)) :
         LET dirs == BlockDirectives(Pairs, j)
         IN  \A i \in 1..Len(dirs) :
               KeysLike(ParsedHosts[j], dirs[i][1]) =
                 {FirstSpelling(dirs, dirs[i][1])}

\* what the specification's detector answers: json when the text is JSON,
\* yaml when it is YAML of a mapping or sequence and none of the first
\* ScanLimit non-comment, non-blank lines looks like a directive, else ssh
SignificantLine(raw) == strip(raw) # "" /\ ~startswith(strip(raw), "#")

ExpectedFormat(content) ==
  LET stripped == strip(content)
      significant == SelectSeq(splitlines(stripped), SignificantLine)
      first == SubSeq(significant, 1,
                      IF Len(significant) < ScanLimit
                      THEN Len(significant) ELSE ScanLimit)
  IN  IF json_loads(stripped).kind = "ok" THEN "json"
      ELSE IF /\ yaml_safe_load(stripped).kind = "ok"
              /\ yaml_safe_load(stripped).val.type \in {"dict", "list"}
              /\ ~\E i \in 1..Len(first) : looks_like_ssh_line(first[i])
      THEN "yaml"
      ELSE "ssh"

Detected == fn \in {"detect_format", "core_detect_format"}

\* C8: format detection never raises: detect_format of parser.py and of
\* core.py return one of ssh, yaml, json for every text, and ssh for empty
\* or whitespace-only text.
C8_DetectionNeverRaises ==
  Detected
    => /\ ret.kind = "ok"
       /\ ret.val \in KnownFormats
       /\ strip(arg.content) = "" => ret.val = "ssh"

\* C9: detection order: detect_format answers json iff the stripped text
\* is JSON; otherwise yaml only if the text is YAML, of a mapping or a
\* sequence, and none of the first 10 non-comment, non-blank lines starts
\* with "host " or "match " or contains a blank while not starting with
\* "{", "[" or "-"; otherwise ssh (stated for the calls that return).
C9_DetectionOrder ==
  (Detected /\ ret.kind = "ok") => ret.val = ExpectedFormat(arg.content)

\* the declared source format, when one is given, loads the content
SourceLoads ==
  \/ arg.source_format \in {<<>>, <<"ssh">>, <<"xml">>}
  \/ arg.source_format = <<"yaml">> /\ yaml_safe_load(arg.content).kind = "ok"
  \/ arg.source_format = <<"json">> /\ json_loads(arg.content).kind = "ok"

\* C10: every convert_format call whose target format, or whose explicitly
\* given source format, is not one of ssh, yaml, json raises the
\* unsupported-format ValueError and returns no text, also when both are
\* the same unknown tag (stated for content the source format loads).
C10_UnsupportedFormatRaises ==
  (fn = "convert_format" /\ SourceLoads
     /\ \/ arg.target_format \notin KnownFormats
        \/ arg.source_format # <<>> /\ arg.source_format[1] \notin KnownFormats)
    => (ret.kind = "raise" /\ ret.exc = "ValueError")

\* the call is a conversion whose source format, given to convert_format
\* or detected by convert, is the target format and a known one
SameKnownFormat ==
  /\ fn \in {"convert_format", "convert"}
  /\ arg.target_format \in KnownFormats
  /\ \/ fn = "convert_format" /\ arg.source_format = <<arg.target_format>>
     \/ fn = "convert" /\ core_detect_format(arg.content) = Return(arg.target_format)

\* C11: identity short-circuit: when the source format, given explicitly to
\* convert_format or detected by convert, equals the target format and is
\* one of ssh, yaml, json, the conversion returns the input text unchanged,
\* character for character, whether or not the text would load.
C11_IdentityShortCircuit ==
  SameKnownFormat => ret = Return(arg.content)

\* a yaml-to-yaml convert_format call on text yaml.safe_load rejects has
\* returned that text
C11_Witness ==
  /\ fn = "convert_format"
  /\ arg.source_format = <<"yaml">> /\ arg.target_format = "yaml"
  /\ yaml_safe_load(arg.content).kind = "raise"
  /\ ret = Return(arg.content)

\* C12: ssh_to_dict emits each entry exactly once: the hosts list has one
\* entry per Host line with a value, plus one when a directive precedes the
\* first Host line, and no entry (the synthesized Host "*" entry in
\* particular) is in the list twice.
C12_EachEntryOnce ==
  fn = "ssh_to_dict"
    => LET refs == ssh_to_dict_refs(arg.content).hosts
       IN  /\ Len(ParsedHosts) =
                Len(HostPositions(Pairs))
                + (IF LeadingDirectives(Pairs) # <<>> THEN 1 ELSE 0)
           /\ \A i, j \in 1..Len(refs) : i # j => refs[i] # refs[j]

====
